---- MODULE Spec2Model ----
(***************************************************************************)
(* Model of src/lcd_helper.py: the LCDDisplay driver of a 240x240 ST7789   *)
(* panel.  The driver is a straight-line program over three collaborators: *)
(* the GPIO pins, the SPI bus and the PIL canvas.  Every call the code     *)
(* makes on a collaborator is one step of the model; each method is the    *)
(* list of its steps, in the order of its source lines.                    *)
(***************************************************************************)
EXTENDS Integers, Sequences, FiniteSets, TLC

(* ------------------------------------------------------------------------ *)
(* Bounds of the model                                                      *)
(* ------------------------------------------------------------------------ *)
\* number of distinct rasters the drawing calls of update_status can leave
NumRasters == 2
\* number of distinct callback functions a caller can pass to set_callbacks
NumFuncs == 2
\* sampling stride of the 8-bit channel values tried on the pixel packing
ChanStride == 7

(* ------------------------------------------------------------------------ *)
(* Program constants                                                        *)
(* ------------------------------------------------------------------------ *)
RST_PIN == 27
DC_PIN == 25
BL_PIN == 24
KEY1_PIN == 21
KEY2_PIN == 20
KEY3_PIN == 16
JOY_CTR == 13

width == 240
height == 240

\* bytes per spi.writebytes call in show()
CHUNK == 4096

\* opcodes written by the driver
MADCTL == 54       \* 0x36
COLMOD == 58       \* 0x3A
INVON == 33        \* 0x21
SLPOUT == 17       \* 0x11
DISPON == 41       \* 0x29
CASET == 42        \* 0x2A
RASET == 43        \* 0x2B
RAMWR == 44        \* 0x2C

\* time.sleep arguments, in milliseconds
RESET_SLEEP_MS == 10
CTOR_SLPOUT_SLEEP_MS == 100
INIT_SLPOUT_SLEEP_MS == 120

LOW == "LOW"
HIGH == "HIGH"
Levels == {LOW, HIGH}

Coords == (0 .. width - 1) \X (0 .. height - 1)

(* ------------------------------------------------------------------------ *)
(* Python integer operators on non-negative integers                        *)
(* ------------------------------------------------------------------------ *)
RECURSIVE BitAnd(_, _)
BitAnd(a, b) ==
    IF a = 0 \/ b = 0 THEN 0
    ELSE 2 * BitAnd(a \div 2, b \div 2) + (IF a % 2 = 1 /\ b % 2 = 1 THEN 1 ELSE 0)

RECURSIVE BitOr(_, _)
BitOr(a, b) ==
    IF a = 0 THEN b
    ELSE IF b = 0 THEN a
    ELSE 2 * BitOr(a \div 2, b \div 2) + (IF a % 2 = 1 \/ b % 2 = 1 THEN 1 ELSE 0)

RECURSIVE Pow2(_)
Pow2(n) == IF n = 0 THEN 1 ELSE 2 * Pow2(n - 1)

ShiftLeft(a, n) == a * Pow2(n)
ShiftRight(a, n) == a \div Pow2(n)

(* ------------------------------------------------------------------------ *)
(* A Python list of byte values, kept as its length and its non-zero        *)
(* elements: element k (from 1) is nz[k] where that is set and 0 elsewhere  *)
(* ------------------------------------------------------------------------ *)
\* the list with the elements of the sequence s
Bytes(s) ==
    [len |-> Len(s),
     nz |-> [k \in {j \in 1 .. Len(s) : s[j] # 0} |-> s[k]]]

ByteAt(l, k) == IF k \in DOMAIN l.nz THEN l.nz[k] ELSE 0

\* l[a:b] for 0 <= a: the slice stops at the end of the list
ListSlice(l, a, b) ==
    LET end == IF b > l.len THEN l.len ELSE b
    IN  [len |-> IF end > a THEN end - a ELSE 0,
         nz |-> [k \in {j - a : j \in {m \in DOMAIN l.nz : m > a /\ m <= end}} |-> l.nz[k + a]]]

(* ------------------------------------------------------------------------ *)
(* The canvas: a PIL 'RGB' image of width x height, kept as a background    *)
(* colour and the pixels that differ from it.                               *)
(* ------------------------------------------------------------------------ *)
BLACK == <<0, 0, 0>>

\* Image.new('RGB', (width, height), fill)
ImageNew(fill) == [bg |-> fill, px |-> <<>>]

\* pix[x, y] of img.load()
GetPixel(im, x, y) == IF <<x, y>> \in DOMAIN im.px THEN im.px[<<x, y>>] ELSE im.bg

\* mutant: the quarter turn the other way (Image.ROTATE_90)
ROTATE_90(x, y) == <<width - 1 - y, x>>

\* Image.ROTATE_270: the pixel at (x, y) of the result is the pixel of the
\* operand at ROTATE_270(x, y)
ROTATE_270(x, y) == <<y, height - 1 - x>>

\* image.transpose(Image.ROTATE_270): a new image, the operand is not touched
Transpose(im) ==
    [bg |-> im.bg,
     px |-> [d \in {c \in Coords : ROTATE_270(c[1], c[2]) \in DOMAIN im.px}
               |-> im.px[ROTATE_270(d[1], d[2])]]]

\* mutant: green masked to five bits, like red and blue
Color_Green5(r, g, b) ==
    BitOr(BitOr(ShiftLeft(BitAnd(r, 248), 8), ShiftLeft(BitAnd(g, 248), 3)),
          ShiftRight(b, 3))

\* color = ((r & 0xF8) << 8) | ((g & 0xFC) << 3) | (b >> 3)
Color(r, g, b) ==
    BitOr(BitOr(ShiftLeft(BitAnd(r, 248), 8), ShiftLeft(BitAnd(g, 252), 3)),
          ShiftRight(b, 3))

\* the two bytes appended for one pixel: (color >> 8) & 0xFF, color & 0xFF
PixelBytes(r, g, b) ==
    <<BitAnd(ShiftRight(Color(r, g, b), 8), 255), BitAnd(Color(r, g, b), 255)>>

\* the pixel read by the n-th iteration (from 0) of the loops
\* "for y in range(height): for x in range(width)"
LoopPixel(n) == <<n % width, n \div width>>

\* the colours that occur in an image
Colours(im) == {im.bg} \cup {im.px[c] : c \in DOMAIN im.px}

\* The raster left on the canvas by the drawing calls of update_status
\* (rectangle, text): black, with the pixels the n-th text covers.  The
\* covered pixels include the four corners and depend on the text.
Raster(n) ==
    [bg |-> BLACK,
     px |-> (<<0, 0>> :> <<0, 255, 255>>)
            @@ (<<width - 1, 0>> :> <<255, 255, 0>>)
            @@ (<<0, height - 1>> :> <<255, 255, 255>>)
            @@ (<<width - 1, height - 1>> :> <<0, 255, 0>>)
            @@ (<<10 + n, 60 + 2 * n>> :> <<(83 * n) % 256, (157 * n) % 256, (29 * n) % 256>>)]

Rasters == {Raster(n) : n \in 1 .. NumRasters}

\* the colours a canvas of the model can hold
Palette == {BLACK} \cup UNION {Colours(r) : r \in Rasters}

\* PixelBytes of every colour of the palette
Packed == [c \in Palette |-> PixelBytes(c[1], c[2], c[3])]

\* the k-th element (from 1) of buffer after the loops of show(): two bytes
\* per pixel, PixelBytes of the pixel read by each iteration
EncodedByte(im, k) ==
    LET at == LoopPixel((k - 1) \div 2)
    IN  Packed[GetPixel(im, at[1], at[2])][2 - (k % 2)]

\* mutant: the second append of the loop body is missing
Encode_HighByteOnly(im) ==
    [len |-> width * height,
     nz |-> [k \in {j \in 1 .. (width * height) : EncodedByte(im, 2 * j - 1) # 0}
               |-> EncodedByte(im, 2 * k - 1)]]

\* buffer after the loops of show()
Encode(im) ==
    [len |-> 2 * width * height,
     nz |-> [k \in {j \in 1 .. (2 * width * height) : EncodedByte(im, j) # 0}
               |-> EncodedByte(im, k)]]

\* the values self.image takes: the new canvas and the drawn ones
Canvases == {ImageNew(BLACK)} \cup Rasters

\* transpose of every canvas, and buffer for every transposed canvas
Transposed == [im \in Canvases |-> Transpose(im)]
Encoded == [im \in {Transposed[c] : c \in Canvases} |-> Encode(im)]

\* mutant: a slice one byte short, buffer[i:i+4095]
Slice_Short(buffer, i) == ListSlice(buffer, i, i + CHUNK - 1)

\* buffer[i:i+4096]
Slice(buffer, i) == ListSlice(buffer, i, i + CHUNK)

(* ------------------------------------------------------------------------ *)
(* The steps of the program: one per call on a collaborator                 *)
(* ------------------------------------------------------------------------ *)
\* GPIO.setmode(GPIO.BCM); GPIO.setwarnings(False)
SetmodeI == [op |-> "setmode"]
\* GPIO.setup(pin, GPIO.OUT) and GPIO.setup(pin, GPIO.IN, pull_up_down=pud)
SetupI(pin, how) == [op |-> "setup", pin |-> pin, how |-> how]
\* GPIO.output(pin, level)
OutputI(pin, level) == [op |-> "output", pin |-> pin, level |-> level]
\* spidev.SpiDev(); open(0, 0); max_speed_hz; mode
OpenI == [op |-> "open"]
\* self.spi.writebytes(bytes); class is what the caller sends the bytes as
WriteI(bytes, class) == [op |-> "write", bytes |-> bytes, class |-> class]
\* time.sleep(ms / 1000)
SleepI(ms) == [op |-> "sleep", ms |-> ms]
\* a call of another method of the object
CallI(fn) == [op |-> "call", fn |-> fn]
\* self.image = Image.new(...); self.draw = ImageDraw.Draw(self.image); fonts
NewCanvasI == [op |-> "newcanvas"]
\* self.draw.rectangle / self.draw.text calls of update_status
DrawI == [op |-> "draw"]
\* self.draw.rectangle((0, 0, width, height), fill=(0, 0, 0))
ClearI == [op |-> "clear"]
\* img = self.image.transpose(Image.ROTATE_270)
TransposeI == [op |-> "transpose"]
\* pix = img.load(); buffer = []; the two loops
EncodeI == [op |-> "encode"]
\* for i in range(0, len(buffer), 4096): the loop variable starts at 0
ForI == [op |-> "for"]
\* self.spi.writebytes(buffer[i:i+4096]), once per iteration
ChunkI == [op |-> "chunk"]
\* GPIO.remove_event_detect(pin) inside try/except
RemoveDetectI(pin) == [op |-> "remove_event_detect", pin |-> pin]
\* GPIO.add_event_detect(pin, GPIO.FALLING, callback=func, bouncetime=300)
\* inside try/except RuntimeError
AddDetectI(pin, func) == [op |-> "add_event_detect", pin |-> pin, func |-> func]

(* ------------------------------------------------------------------------ *)
(* The methods of LCDDisplay                                                *)
(* ------------------------------------------------------------------------ *)
\* mutant: command() does not drive DC
command_NoDc(cmd) == <<WriteI(Bytes(<<cmd>>), "command")>>

command(cmd) == <<OutputI(DC_PIN, LOW), WriteI(Bytes(<<cmd>>), "command")>>

\* mutant: data() does not drive DC
data_NoDc(val) == <<WriteI(Bytes(<<val>>), "data")>>

data(val) == <<OutputI(DC_PIN, HIGH), WriteI(Bytes(<<val>>), "data")>>

\* mutant: the sleep after sleep-out is the 10 ms of the reset pulse
init_display_ShortSettle ==
    <<OutputI(RST_PIN, HIGH), SleepI(RESET_SLEEP_MS),
      OutputI(RST_PIN, LOW), SleepI(RESET_SLEEP_MS),
      OutputI(RST_PIN, HIGH), SleepI(RESET_SLEEP_MS)>>
    \o command(SLPOUT) \o <<SleepI(RESET_SLEEP_MS)>>
    \o command(MADCTL) \o data(0)
    \o command(COLMOD) \o data(5)
    \o command(DISPON)

init_display ==
    <<OutputI(RST_PIN, HIGH), SleepI(RESET_SLEEP_MS),
      OutputI(RST_PIN, LOW), SleepI(RESET_SLEEP_MS),
      OutputI(RST_PIN, HIGH), SleepI(RESET_SLEEP_MS)>>
    \o command(SLPOUT) \o <<SleepI(INIT_SLPOUT_SLEEP_MS)>>
    \o command(MADCTL) \o data(0)
    \o command(COLMOD) \o data(5)
    \o command(DISPON)

\* mutant: the constructor writes display inversion off (0x20), not on
ctor_InversionOff ==
    <<SetmodeI,
      SetupI(RST_PIN, "OUT"), SetupI(DC_PIN, "OUT"), SetupI(BL_PIN, "OUT"),
      OutputI(BL_PIN, HIGH),
      SetupI(KEY1_PIN, "IN_PUD_UP"), SetupI(KEY2_PIN, "IN_PUD_UP"),
      SetupI(KEY3_PIN, "IN_PUD_UP"), SetupI(JOY_CTR, "IN_PUD_DOWN"),
      SetmodeI,
      SetupI(RST_PIN, "OUT"), SetupI(DC_PIN, "OUT"), SetupI(BL_PIN, "OUT"),
      OutputI(BL_PIN, HIGH),
      OpenI>>
    \o command(MADCTL) \o data(0)
    \o command(COLMOD) \o data(5)
    \o command(32)
    \o command(SLPOUT) \o <<SleepI(CTOR_SLPOUT_SLEEP_MS)>>
    \o command(DISPON)
    \o <<CallI("init_display"), NewCanvasI>>

\* mutant: the backlight is switched on only by the second block of the
\* constructor (line 49), not right after the pin is set up
ctor_BacklightLate ==
    <<SetmodeI,
      SetupI(RST_PIN, "OUT"), SetupI(DC_PIN, "OUT"), SetupI(BL_PIN, "OUT"),
      SetupI(KEY1_PIN, "IN_PUD_UP"), SetupI(KEY2_PIN, "IN_PUD_UP"),
      SetupI(KEY3_PIN, "IN_PUD_UP"), SetupI(JOY_CTR, "IN_PUD_DOWN"),
      SetmodeI,
      SetupI(RST_PIN, "OUT"), SetupI(DC_PIN, "OUT"), SetupI(BL_PIN, "OUT"),
      OutputI(BL_PIN, HIGH),
      OpenI>>
    \o command(MADCTL) \o data(0)
    \o command(COLMOD) \o data(5)
    \o command(INVON)
    \o command(SLPOUT) \o <<SleepI(CTOR_SLPOUT_SLEEP_MS)>>
    \o command(DISPON)
    \o <<CallI("init_display"), NewCanvasI>>

ctor ==
    <<SetmodeI,
      SetupI(RST_PIN, "OUT"), SetupI(DC_PIN, "OUT"), SetupI(BL_PIN, "OUT"),
      OutputI(BL_PIN, HIGH),
      SetupI(KEY1_PIN, "IN_PUD_UP"), SetupI(KEY2_PIN, "IN_PUD_UP"),
      SetupI(KEY3_PIN, "IN_PUD_UP"), SetupI(JOY_CTR, "IN_PUD_DOWN"),
      SetmodeI,
      SetupI(RST_PIN, "OUT"), SetupI(DC_PIN, "OUT"), SetupI(BL_PIN, "OUT"),
      OutputI(BL_PIN, HIGH),
      OpenI>>
    \o command(MADCTL) \o data(0)
    \o command(COLMOD) \o data(5)
    \o command(INVON)
    \o command(SLPOUT) \o <<SleepI(CTOR_SLPOUT_SLEEP_MS)>>
    \o command(DISPON)
    \o <<CallI("init_display"), NewCanvasI>>

\* mutant: the row window is set before the column window
show_RowsFirst ==
    <<TransposeI>>
    \o command(RASET) \o data(0) \o data(0) \o data(0) \o data(239)
    \o command(CASET) \o data(0) \o data(0) \o data(0) \o data(239)
    \o command(RAMWR)
    \o <<EncodeI, OutputI(DC_PIN, HIGH), ForI, ChunkI>>

\* mutant: the window ends at width and height, not at width-1 and height-1
show_Window240 ==
    <<TransposeI>>
    \o command(CASET) \o data(0) \o data(0) \o data(0) \o data(240)
    \o command(RASET) \o data(0) \o data(0) \o data(0) \o data(240)
    \o command(RAMWR)
    \o <<EncodeI, OutputI(DC_PIN, HIGH), ForI, ChunkI>>

show ==
    <<TransposeI>>
    \o command(CASET) \o data(0) \o data(0) \o data(0) \o data(239)
    \o command(RASET) \o data(0) \o data(0) \o data(0) \o data(239)
    \o command(RAMWR)
    \o <<EncodeI, OutputI(DC_PIN, HIGH), ForI, ChunkI>>

update_status == <<DrawI, CallI("show")>>

\* mutant: clear() pushes the cleared canvas to the panel
clear_ThenShow == <<ClearI, CallI("show")>>

clear == <<ClearI>>

None == "None"
FuncNames == <<"on_key_a", "on_key_b", "on_key_c", "on_key_d">>
Funcs == {FuncNames[n] : n \in 1 .. NumFuncs}

\* the dict of set_callbacks, in insertion order
ButtonPins == <<KEY1_PIN, KEY2_PIN, KEY3_PIN>>

\* "for pin, func in pins.items(): if func: ..." for the arguments
\* args = <<key1_func, key2_func, key3_func>>
RECURSIVE set_callbacks_from(_, _)
set_callbacks_from(args, n) ==
    IF n > Len(ButtonPins) THEN <<>>
    ELSE (IF args[n] # None
          THEN <<RemoveDetectI(ButtonPins[n]), AddDetectI(ButtonPins[n], args[n])>>
          ELSE <<>>)
         \o set_callbacks_from(args, n + 1)

\* mutant: add_event_detect without the remove_event_detect before it
RECURSIVE set_callbacks_NoRemove_from(_, _)
set_callbacks_NoRemove_from(args, n) ==
    IF n > Len(ButtonPins) THEN <<>>
    ELSE (IF args[n] # None THEN <<AddDetectI(ButtonPins[n], args[n])>> ELSE <<>>)
         \o set_callbacks_NoRemove_from(args, n + 1)

set_callbacks_NoRemove(args) == set_callbacks_NoRemove_from(args, 1)

\* mutant: a button given no callback has its detection removed
RECURSIVE set_callbacks_ClearsAll_from(_, _)
set_callbacks_ClearsAll_from(args, n) ==
    IF n > Len(ButtonPins) THEN <<>>
    ELSE (IF args[n] # None
          THEN <<RemoveDetectI(ButtonPins[n]), AddDetectI(ButtonPins[n], args[n])>>
          ELSE <<RemoveDetectI(ButtonPins[n])>>)
         \o set_callbacks_ClearsAll_from(args, n + 1)

set_callbacks_ClearsAll(args) == set_callbacks_ClearsAll_from(args, 1)

set_callbacks(args) == set_callbacks_from(args, 1)

Code(fn, args) ==
    CASE fn = "__init__" -> ctor
      [] fn = "init_display" -> init_display
      [] fn = "show" -> show
      [] fn = "update_status" -> update_status
      [] fn = "clear" -> clear
      [] fn = "set_callbacks" -> set_callbacks(args)

(* ------------------------------------------------------------------------ *)
(* State                                                                    *)
(* ------------------------------------------------------------------------ *)
\* the thread that owns the display, and the thread the GPIO library runs
\* button callbacks on
Threads == {"main", "callback"}

OutPins == {RST_PIN, DC_PIN, BL_PIN}
InPins == {KEY1_PIN, KEY2_PIN, KEY3_PIN, JOY_CTR}
NoImage == "NoImage"
\* no exception
NoExc == "NoExc"

VARIABLES
    frames,     \* per thread: the call stack, innermost frame last
    trace,      \* pin writes, bus writes, sleeps and printed warnings since
                \* the last top-level call began, in order, each with the
                \* thread it is by
    last,       \* the top-level call that trace belongs to
    exc,        \* per thread: the exception raised on it and not handled; it
                \* has reached the caller once the thread's stack is empty
    failedBefore, \* the method the previous top-level call was of, if that
                \* call ended with an exception
    serialized, \* whether the callers of show() and update_status() hold
                \* one lock around each call
    mode,       \* GPIO numbering mode
    dir,        \* per pin: how GPIO.setup configured it
    level,      \* per output pin: the level it is driven to
    spi,        \* whether self.spi is open
    image,      \* self.image
    img,        \* per thread: img of show()
    buffer,     \* per thread: buffer of show()
    i,          \* per thread: loop variable i of show()
    detect,     \* GPIO library: pins with edge detection enabled
    callbacks,  \* GPIO library: per pin, its registered callbacks, in order
    newest,     \* per button pin: the callback last handed to add_event_detect
    fired,      \* the callbacks run by the last button press since the last
                \* top-level call began
    arg,        \* input of the pure function under test
    res         \* its result

vars == <<frames, trace, last, exc, failedBefore, serialized, mode, dir, level,
          spi, image, img, buffer, i, detect, callbacks, newest, fired, arg, res>>

gpioVars == <<mode, dir, level>>
showVars == <<img, buffer, i>>
buttonVars == <<detect, callbacks, newest, fired>>
pureVars == <<arg, res>>
callerVars == <<exc, failedBefore, serialized>>

Frame(fn, args, base) == [fn |-> fn, args |-> args, i |-> 1, base |-> base]

Running(t) == frames[t] # <<>>
Top(t) == frames[t][Len(frames[t])]
TopCode(t) == Code(Top(t).fn, Top(t).args)
At(t, op) ==
    /\ Running(t)
    /\ exc[t] = NoExc
    /\ Top(t).i <= Len(TopCode(t))
    /\ TopCode(t)[Top(t).i].op = op
Instr(t) == TopCode(t)[Top(t).i]
Advance(t) == [frames EXCEPT ![t][Len(frames[t])].i = @ + 1]

\* construction starts when the object is created: the pins are at the level
\* whatever ran before left them at
InitDriver ==
    /\ frames = [t \in Threads |-> IF t = "main" THEN <<Frame("__init__", <<>>, 0)>> ELSE <<>>]
    /\ trace = <<>>
    /\ last = "__init__"
    /\ exc = [t \in Threads |-> NoExc]
    /\ failedBefore = NoExc
    /\ mode = "UNSET"
    /\ dir = [p \in OutPins \cup InPins |-> "NONE"]
    /\ level \in [OutPins -> Levels]
    /\ spi = FALSE
    /\ image = NoImage
    /\ img = [t \in Threads |-> NoImage]
    /\ buffer = [t \in Threads |-> Bytes(<<>>)]
    /\ i = [t \in Threads |-> 0]
    /\ detect = {}
    /\ callbacks = [p \in InPins |-> <<>>]
    /\ newest = [p \in InPins |-> None]
    /\ fired = <<>>

Init == InitDriver /\ serialized = FALSE /\ arg = <<>> /\ res = <<>>

(* ------------------------------------------------------------------------ *)
(* Steps                                                                    *)
(* ------------------------------------------------------------------------ *)
StepSetmode(t) ==
    /\ At(t, "setmode")
    /\ mode' = "BCM"
    /\ frames' = Advance(t)
    /\ UNCHANGED <<trace, last, callerVars, dir, level, spi, image, showVars, buttonVars, pureVars>>

StepSetup(t) ==
    /\ At(t, "setup")
    /\ dir' = [dir EXCEPT ![Instr(t).pin] = Instr(t).how]
    /\ frames' = Advance(t)
    /\ UNCHANGED <<trace, last, callerVars, mode, level, spi, image, showVars, buttonVars, pureVars>>

StepOutput(t) ==
    /\ At(t, "output")
    /\ level' = [level EXCEPT ![Instr(t).pin] = Instr(t).level]
    /\ trace' = Append(trace, [ev |-> "output", by |-> t, pin |-> Instr(t).pin, level |-> Instr(t).level])
    /\ frames' = Advance(t)
    /\ UNCHANGED <<last, callerVars, mode, dir, spi, image, showVars, buttonVars, pureVars>>

StepOpen(t) ==
    /\ At(t, "open")
    /\ spi' = TRUE
    /\ frames' = Advance(t)
    /\ UNCHANGED <<trace, last, callerVars, gpioVars, image, showVars, buttonVars, pureVars>>

\* one spi.writebytes call: the panel samples the DC pin as the bytes arrive
BusWrite(t, bytes, class) ==
    [ev |-> "write", by |-> t, dc |-> level[DC_PIN], bytes |-> bytes, class |-> class]

StepWrite(t) ==
    /\ At(t, "write")
    /\ spi
    /\ trace' = Append(trace, BusWrite(t, Instr(t).bytes, Instr(t).class))
    /\ frames' = Advance(t)
    /\ UNCHANGED <<last, callerVars, gpioVars, spi, image, showVars, buttonVars, pureVars>>

StepSleep(t) ==
    /\ At(t, "sleep")
    /\ trace' = Append(trace, [ev |-> "sleep", by |-> t, ms |-> Instr(t).ms])
    /\ frames' = Advance(t)
    /\ UNCHANGED <<last, callerVars, gpioVars, spi, image, showVars, buttonVars, pureVars>>

StepCall(t) ==
    /\ At(t, "call")
    /\ frames' = [frames EXCEPT ![t] =
                    Append(Advance(t)[t], Frame(Instr(t).fn, <<>>, Len(trace)))]
    /\ UNCHANGED <<trace, last, callerVars, gpioVars, spi, image, showVars, buttonVars, pureVars>>

\* the end of a method: its locals are gone
StepReturn(t) ==
    /\ Running(t)
    /\ exc[t] = NoExc
    /\ Top(t).i > Len(TopCode(t))
    /\ frames' = [frames EXCEPT ![t] = SubSeq(@, 1, Len(@) - 1)]
    /\ IF Top(t).fn = "show"
       THEN /\ img' = [img EXCEPT ![t] = NoImage]
            /\ buffer' = [buffer EXCEPT ![t] = Bytes(<<>>)]
            /\ i' = [i EXCEPT ![t] = 0]
       ELSE UNCHANGED showVars
    /\ UNCHANGED <<trace, last, callerVars, gpioVars, spi, image, buttonVars, pureVars>>

StepNewCanvas(t) ==
    /\ At(t, "newcanvas")
    /\ image' = ImageNew(BLACK)
    /\ frames' = Advance(t)
    /\ UNCHANGED <<trace, last, callerVars, gpioVars, spi, showVars, buttonVars, pureVars>>

\* update_status(title, status, progress): what is drawn depends on the
\* arguments alone, since the first rectangle covers the whole canvas
StepDraw(t) ==
    /\ At(t, "draw")
    /\ image' = Raster(Top(t).args)
    /\ frames' = Advance(t)
    /\ UNCHANGED <<trace, last, callerVars, gpioVars, spi, showVars, buttonVars, pureVars>>

StepClear(t) ==
    /\ At(t, "clear")
    /\ image' = [bg |-> BLACK, px |-> <<>>]
    /\ frames' = Advance(t)
    /\ UNCHANGED <<trace, last, callerVars, gpioVars, spi, showVars, buttonVars, pureVars>>

\* mutant: the canvas is rotated in place,
\* self.image = self.image.transpose(Image.ROTATE_270)
StepTranspose_InPlace(t) ==
    /\ At(t, "transpose")
    /\ img' = [img EXCEPT ![t] = Transposed[image]]
    /\ image' = Transposed[image]
    /\ frames' = Advance(t)
    /\ UNCHANGED <<trace, last, callerVars, gpioVars, spi, buffer, i, buttonVars, pureVars>>

StepTranspose(t) ==
    /\ At(t, "transpose")
    /\ img' = [img EXCEPT ![t] = Transposed[image]]
    /\ frames' = Advance(t)
    /\ UNCHANGED <<trace, last, callerVars, gpioVars, spi, image, buffer, i, buttonVars, pureVars>>

StepEncode(t) ==
    /\ At(t, "encode")
    /\ buffer' = [buffer EXCEPT ![t] = Encoded[img[t]]]
    /\ frames' = Advance(t)
    /\ UNCHANGED <<trace, last, callerVars, gpioVars, spi, image, img, i, buttonVars, pureVars>>

StepFor(t) ==
    /\ At(t, "for")
    /\ i' = [i EXCEPT ![t] = 0]
    \* range(0, 0, 4096) is empty: the loop body is skipped
    /\ frames' = IF buffer[t].len = 0
                 THEN [frames EXCEPT ![t][Len(frames[t])].i = @ + 2]
                 ELSE Advance(t)
    /\ UNCHANGED <<trace, last, callerVars, gpioVars, spi, image, img, buffer, buttonVars, pureVars>>

\* one iteration; the loop ends when range(0, len(buffer), 4096) is used up
StepChunk(t) ==
    /\ At(t, "chunk")
    /\ spi
    /\ trace' = Append(trace, BusWrite(t, Slice(buffer[t], i[t]), "pixels"))
    /\ IF i[t] + CHUNK < buffer[t].len
       THEN /\ i' = [i EXCEPT ![t] = @ + CHUNK]
            /\ UNCHANGED frames
       ELSE /\ UNCHANGED i
            /\ frames' = Advance(t)
    /\ UNCHANGED <<last, callerVars, gpioVars, spi, image, img, buffer, buttonVars, pureVars>>

\* GPIO.remove_event_detect: the pin's detection and its callbacks are
\* dropped; on a pin without detection nothing happens (an exception there
\* is swallowed by the bare except)
StepRemoveDetect(t) ==
    /\ At(t, "remove_event_detect")
    /\ detect' = detect \ {Instr(t).pin}
    /\ callbacks' = [callbacks EXCEPT ![Instr(t).pin] = <<>>]
    /\ frames' = Advance(t)
    /\ UNCHANGED <<trace, last, callerVars, gpioVars, spi, image, showVars, newest, fired, pureVars>>

\* mutant: no except clause around add_event_detect, the RuntimeError
\* leaves set_callbacks
StepAddDetect_Raises(t) ==
    /\ At(t, "add_event_detect")
    /\ newest' = [newest EXCEPT ![Instr(t).pin] = Instr(t).func]
    /\ \/ /\ exc' = [exc EXCEPT ![t] = "RuntimeError"]
          /\ frames' = [frames EXCEPT ![t] = <<>>]
          /\ UNCHANGED <<detect, callbacks>>
       \/ /\ Instr(t).pin \notin detect
          /\ detect' = detect \cup {Instr(t).pin}
          /\ callbacks' = [callbacks EXCEPT ![Instr(t).pin] = Append(@, Instr(t).func)]
          /\ frames' = Advance(t)
          /\ UNCHANGED exc
    /\ UNCHANGED <<trace, last, failedBefore, serialized, gpioVars, spi, image,
                   showVars, fired, pureVars>>

\* GPIO.add_event_detect: RuntimeError "Conflicting edge detection already
\* enabled" on a pin that has detection, RuntimeError "Failed to add edge
\* detection" when the kernel refuses; the except clause prints a warning
StepAddDetect(t) ==
    /\ At(t, "add_event_detect")
    /\ newest' = [newest EXCEPT ![Instr(t).pin] = Instr(t).func]
    /\ \/ /\ Instr(t).pin \in detect
          /\ trace' = Append(trace, [ev |-> "print", by |-> t, pin |-> Instr(t).pin, why |-> "conflict"])
          /\ UNCHANGED <<detect, callbacks>>
       \/ /\ Instr(t).pin \notin detect
          /\ trace' = Append(trace, [ev |-> "print", by |-> t, pin |-> Instr(t).pin, why |-> "failed"])
          /\ UNCHANGED <<detect, callbacks>>
       \/ /\ Instr(t).pin \notin detect
          /\ detect' = detect \cup {Instr(t).pin}
          /\ callbacks' = [callbacks EXCEPT ![Instr(t).pin] = Append(@, Instr(t).func)]
          /\ UNCHANGED trace
    /\ frames' = Advance(t)
    /\ UNCHANGED <<last, callerVars, gpioVars, spi, image, showVars, fired, pureVars>>

\* a falling edge on a pin with detection: the library runs the pin's
\* callbacks in the order they were registered
Press(pin) ==
    /\ pin \in detect
    /\ fired' = [pin |-> pin, funcs |-> callbacks[pin]]
    /\ UNCHANGED <<frames, trace, last, callerVars, gpioVars, spi, image, showVars,
                   detect, callbacks, newest, pureVars>>

\* the bytes a failed spi.writebytes was given
FailedWrite(t) ==
    [ev |-> "write_failed", by |-> t,
     class |-> IF Instr(t).op = "chunk" THEN "pixels" ELSE Instr(t).class]

\* mutant: the failed write is caught and tried again
FailWrite_Retry(t) ==
    /\ At(t, "write") \/ At(t, "chunk")
    /\ spi
    /\ IF trace = <<>> THEN TRUE ELSE trace[Len(trace)].ev # "write_failed"
    /\ trace' = Append(trace, FailedWrite(t))
    /\ UNCHANGED <<frames, last, callerVars, gpioVars, spi, image, showVars,
                   buttonVars, pureVars>>

\* self.spi.writebytes raises (the SPI device reports an I/O error): the
\* statement does not complete
FailWrite(t) ==
    /\ At(t, "write") \/ At(t, "chunk")
    /\ spi
    /\ trace' = Append(trace, FailedWrite(t))
    /\ exc' = [exc EXCEPT ![t] = "OSError"]
    /\ UNCHANGED <<frames, last, failedBefore, serialized, gpioVars, spi, image,
                   showVars, buttonVars, pureVars>>

\* an exception leaves the method it is raised in: no bus write of any
\* method is inside a try block (the only ones, lines 96-105, hold the two
\* GPIO calls of set_callbacks)
StepUnwind(t) ==
    /\ Running(t)
    /\ exc[t] # NoExc
    /\ frames' = [frames EXCEPT ![t] = SubSeq(@, 1, Len(@) - 1)]
    /\ IF Top(t).fn = "show"
       THEN /\ img' = [img EXCEPT ![t] = NoImage]
            /\ buffer' = [buffer EXCEPT ![t] = Bytes(<<>>)]
            /\ i' = [i EXCEPT ![t] = 0]
       ELSE UNCHANGED showVars
    /\ UNCHANGED <<trace, last, callerVars, gpioVars, spi, image, buttonVars, pureVars>>

(* ------------------------------------------------------------------------ *)
(* Top-level calls by the owner of the object, once it is constructed       *)
(* ------------------------------------------------------------------------ *)
\* __init__ has run to its end: there is an object to call methods on
Constructed == last # "__init__" \/ (~Running("main") /\ exc["main"] = NoExc)

\* the thread t calls fn while no other call is going on; an exception that
\* ended the call before is the caller's to deal with, and is gone
Call(t, fn, args) ==
    /\ Constructed
    /\ \A u \in Threads : ~Running(u)
    /\ frames' = [frames EXCEPT ![t] = <<Frame(fn, args, 0)>>]
    /\ trace' = <<>>
    /\ last' = fn
    /\ exc' = [u \in Threads |-> NoExc]
    /\ failedBefore' = IF \E u \in Threads : exc[u] # NoExc THEN last ELSE NoExc
    /\ fired' = <<>>
    /\ UNCHANGED <<serialized, gpioVars, spi, image, showVars, detect, callbacks,
                   newest, pureVars>>

CallInitDisplay == Call("main", "init_display", <<>>)
CallShow == Call("main", "show", <<>>)
CallUpdateStatus == \E n \in 1 .. NumRasters : Call("main", "update_status", n)
CallClear == Call("main", "clear", <<>>)
CallSetCallbacks ==
    \E k1 \in {None} \cup Funcs, k2 \in {None} \cup Funcs, k3 \in {None} \cup Funcs :
        Call("main", "set_callbacks", <<k1, k2, k3>>)

\* the steps common to every use of the object
Step(t) ==
    \/ StepSetmode(t) \/ StepSetup(t) \/ StepOutput(t) \/ StepOpen(t)
    \/ StepWrite(t) \/ StepSleep(t) \/ StepCall(t) \/ StepReturn(t)
    \/ StepNewCanvas(t)

DisplayStep(t) ==
    \/ StepDraw(t) \/ StepClear(t) \/ StepTranspose(t) \/ StepEncode(t)
    \/ StepFor(t) \/ StepChunk(t)

\* single-threaded use of the display
Next ==
    \/ Step("main")
    \/ DisplayStep("main")
    \/ CallInitDisplay
    \/ CallShow
    \/ CallUpdateStatus
    \/ CallClear

Spec == Init /\ [][Next]_vars

\* single-threaded use of the display on a bus whose writes can fail
NextFaulty ==
    \/ Next
    \/ FailWrite("main")
    \/ StepUnwind("main")

SpecFaulty == Init /\ [][NextFaulty]_vars

\* The schedules followed when both threads are in a call: the callback
\* thread, once the library has started it, runs to the end of its call
\* before the main thread goes on.  The threads can interleave in other
\* ways too; under a lock around the calls they do not overlap at all.
MayRun(t) == t = "callback" \/ ~Running("callback")

\* a button callback, run by the GPIO library on its own thread, calls fn
\* while the main thread is inside show() or update_status(); with a lock
\* around the calls it would wait for the main thread's call to end
Interrupt(fn, args) ==
    /\ ~serialized
    /\ Running("main")
    /\ last \in {"show", "update_status"}
    /\ ~Running("callback")
    /\ \A k \in 1 .. Len(trace) : trace[k].by = "main"
    /\ frames' = [frames EXCEPT !["callback"] = <<Frame(fn, args, Len(trace))>>]
    /\ UNCHANGED <<trace, last, callerVars, gpioVars, spi, image, showVars,
                   buttonVars, pureVars>>

ShowStep(t) ==
    \/ StepDraw(t) \/ StepTranspose(t) \/ StepEncode(t) \/ StepFor(t) \/ StepChunk(t)

\* the display used by the main thread and by button callbacks
NextShared ==
    \/ \E t \in Threads : MayRun(t) /\ (Step(t) \/ ShowStep(t))
    \/ Call("main", "show", <<>>)
    \/ Call("callback", "update_status", 1)
    \/ Interrupt("update_status", 1)

InitShared == InitDriver /\ serialized \in BOOLEAN /\ arg = <<>> /\ res = <<>>

SpecShared == InitShared /\ [][NextShared]_vars

\* show() called again by the caller of a show() that has just returned;
\* the trace goes on, to hold both calls
CallShowAgain ==
    /\ last = "show"
    /\ \A u \in Threads : ~Running(u) /\ exc[u] = NoExc
    /\ frames' = [frames EXCEPT !["main"] = <<Frame("show", <<>>, Len(trace))>>]
    /\ last' = "show, show"
    /\ UNCHANGED <<trace, callerVars, gpioVars, spi, image, showVars, buttonVars, pureVars>>

\* set_callbacks with one callback or none for each button
CallBind ==
    \E k1 \in {None, FuncNames[1]}, k2 \in {None, FuncNames[1]}, k3 \in {None, FuncNames[1]} :
        Call("main", "set_callbacks", <<k1, k2, k3>>)

\* single-threaded use of every method of the driver
NextDriver ==
    \/ Next
    \/ CallShowAgain
    \/ StepRemoveDetect("main")
    \/ StepAddDetect("main")
    \/ CallBind

SpecDriver == Init /\ [][NextDriver]_vars

\* single-threaded use of the buttons
NextButtons ==
    \/ Step("main")
    \/ StepRemoveDetect("main")
    \/ StepAddDetect("main")
    \/ CallSetCallbacks
    \/ \E pin \in InPins : Press(pin)

SpecButtons == Init /\ [][NextButtons]_vars

(* ------------------------------------------------------------------------ *)
(* The pixel packing and the rotation on their own: the input is drawn, the *)
(* function of show() is applied to it                                      *)
(* ------------------------------------------------------------------------ *)
\* the driver, constructed and at rest
Quiet ==
    /\ frames = [t \in Threads |-> <<>>]
    /\ trace = <<>>
    /\ last = "__init__"
    /\ exc = [t \in Threads |-> NoExc]
    /\ failedBefore = NoExc
    /\ serialized = FALSE
    /\ mode = "BCM"
    /\ dir = [p \in OutPins \cup InPins |->
                IF p \in OutPins THEN "OUT"
                ELSE IF p = JOY_CTR THEN "IN_PUD_DOWN" ELSE "IN_PUD_UP"]
    /\ level = [p \in OutPins |-> IF p = DC_PIN THEN LOW ELSE HIGH]
    /\ spi = TRUE
    /\ image = ImageNew(BLACK)
    /\ img = [t \in Threads |-> NoImage]
    /\ buffer = [t \in Threads |-> Bytes(<<>>)]
    /\ i = [t \in Threads |-> 0]
    /\ detect = {}
    /\ callbacks = [p \in InPins |-> <<>>]
    /\ newest = [p \in InPins |-> None]
    /\ fired = <<>>

driverVars == <<frames, trace, last, exc, failedBefore, serialized, mode, dir, level,
                spi, image, img, buffer, i, detect, callbacks, newest, fired>>

\* 8-bit channel values: every ChanStride-th one and the largest
Channels == {v \in 0 .. 255 : v % ChanStride = 0} \cup {255}

\* the pixels tried: the sampled values in all three channels, and every
\* value of one channel with the other two at either end
Pixels ==
    (Channels \X Channels \X Channels)
    \cup ((0 .. 255) \X {0, 255} \X {0, 255})
    \cup ({0, 255} \X (0 .. 255) \X {0, 255})
    \cup ({0, 255} \X {0, 255} \X (0 .. 255))

InitPack == Quiet /\ arg \in Pixels /\ res = <<>>

\* r, g, b = pix[x, y] and the two appends of one iteration
PackPixel ==
    /\ res = <<>>
    /\ res' = PixelBytes(arg[1], arg[2], arg[3])
    /\ UNCHANGED <<driverVars, arg>>

SpecPack == InitPack /\ [][PackPixel]_vars

InitRotate == Quiet /\ arg \in Coords /\ res = <<>>

\* the iteration of the loops of show() that appends the pixel (x, y) of
\* img: the pixel of self.image it holds, and what the iteration reads
RotatePixel ==
    /\ res = <<>>
    /\ res' = [from |-> ROTATE_270(arg[1], arg[2]),
               read |-> LoopPixel(arg[2] * width + arg[1])]
    /\ UNCHANGED <<driverVars, arg>>

SpecRotate == InitRotate /\ [][RotatePixel]_vars

(* ------------------------------------------------------------------------ *)
(* Reading the trace                                                        *)
(* ------------------------------------------------------------------------ *)
IsWrite(e) == e.ev = "write"
IsDcOutput(e) == e.ev = "output" /\ e.pin = DC_PIN
\* the panel takes a byte as a command when DC is low while it arrives
IsCommandWrite(e) == IsWrite(e) /\ e.dc = LOW
IsDataWrite(e) == IsWrite(e) /\ e.dc = HIGH
IsPixels(e) == IsWrite(e) /\ e.class = "pixels"

Writes(tr) == SelectSeq(tr, IsWrite)
PixelWrites(tr) == SelectSeq(tr, IsPixels)

\* the list a followed by the list b
Joined(a, b) ==
    [len |-> a.len + b.len,
     nz |-> [k \in DOMAIN a.nz \cup {j + a.len : j \in DOMAIN b.nz} |->
                IF k <= a.len THEN a.nz[k] ELSE b.nz[k - a.len]]]

\* the lists written by the writes ws, joined in the order written
RECURSIVE Concat(_)
Concat(ws) ==
    IF ws = <<>> THEN Bytes(<<>>)
    ELSE Joined(Concat(SubSeq(ws, 1, Len(ws) - 1)), ws[Len(ws)].bytes)

RECURSIVE TotalLen(_)
TotalLen(ws) == IF ws = <<>> THEN 0 ELSE Head(ws).bytes.len + TotalLen(Tail(ws))

\* the trace is that of one show(), called directly or by update_status
InShowCall == last \in {"show", "update_status"}
\* ... and that show() has written its last chunk
ShowDone ==
    /\ InShowCall
    /\ \/ ~Running("main")
       \/ /\ Top("main").fn = "show"
          /\ Top("main").i > Len(show)
       \/ /\ Top("main").fn = "update_status"
          /\ Top("main").i > Len(update_status)

(* ------------------------------------------------------------------------ *)
(* C1: every SPI write happens with the DC line at the level of its         *)
(* content - low for a command opcode, high for a parameter byte or a pixel *)
(* chunk - and that level was set by a DC write of the same call before the *)
(* SPI write, with no other DC write in between.                            *)
(* ------------------------------------------------------------------------ *)
WantedDc(e) == IF e.class = "command" THEN LOW ELSE HIGH

DcSetBefore(k) ==
    \E j \in 1 .. (k - 1) :
        /\ IsDcOutput(trace[j])
        /\ trace[j].level = WantedDc(trace[k])
        /\ \A m \in (j + 1) .. (k - 1) : ~IsDcOutput(trace[m])

\* C1: each bus write has DC at the level of its content, set beforehand
C1_DcMatchesEveryWrite ==
    \A k \in 1 .. Len(trace) :
        IsWrite(trace[k]) =>
            /\ trace[k].dc = WantedDc(trace[k])
            /\ DcSetBefore(k)

\* a show() that wrote commands, parameters and all its pixel chunks
C1_Witness ==
    /\ ShowDone
    /\ \E k \in 1 .. Len(trace) : IsWrite(trace[k]) /\ trace[k].class = "command"
    /\ \E k \in 1 .. Len(trace) : IsWrite(trace[k]) /\ trace[k].class = "data"
    /\ Len(PixelWrites(trace)) > 1

(* ------------------------------------------------------------------------ *)
(* C2: the bus writes of show() are, in order: 0x2A and four data bytes,    *)
(* 0x2B and four data bytes, 0x2C, then only pixel data - after 0x2C no     *)
(* byte is written as a command until show() ends.                          *)
(* ------------------------------------------------------------------------ *)
\* position of the memory-write command among the bus writes of show()
RamwrAt == 1 + 4 + 1 + 4 + 1

ShowHeaderOk(w, k) ==
    IF k \in {1, 6, RamwrAt}
    THEN /\ IsCommandWrite(w[k])
         /\ w[k].bytes = Bytes(<<(IF k = 1 THEN 42 ELSE IF k = 6 THEN 43 ELSE 44)>>)
    ELSE /\ IsDataWrite(w[k])
         /\ w[k].bytes.len = 1
         /\ w[k].class = "data"

\* C2: show() writes 0x2A+4, 0x2B+4, 0x2C, then pixel data only
C2_ShowOrder ==
    InShowCall =>
        LET w == Writes(trace)
        IN  /\ \A k \in 1 .. Len(w) :
                 IF k <= RamwrAt THEN ShowHeaderOk(w, k)
                 ELSE IsDataWrite(w[k]) /\ w[k].class = "pixels"
            /\ ShowDone => Len(w) > RamwrAt

C2_Witness ==
    /\ ShowDone
    /\ ~Running("main")
    /\ Len(Writes(trace)) > RamwrAt + 1

(* ------------------------------------------------------------------------ *)
(* C3: the pixel payload goes out in chunks of at most 4096 bytes whose     *)
(* concatenation, in the order written, is the encoded buffer, and no       *)
(* command byte is written between two chunks.                              *)
(* ------------------------------------------------------------------------ *)
\* the frame of show() is still there, so its buffer is
ShowAtEnd ==
    /\ Running("main")
    /\ Top("main").fn = "show"
    /\ Top("main").i > Len(show)

\* C3: chunks of at most 4096 bytes, their concatenation the buffer, no
\* other write between them
C3_ChunksAreTheBuffer ==
    InShowCall =>
        /\ \A k \in 1 .. Len(trace) :
             IsPixels(trace[k]) =>
                /\ trace[k].bytes.len >= 1
                /\ trace[k].bytes.len <= 4096
                /\ \A m \in (k + 1) .. Len(trace) :
                     IsWrite(trace[m]) => IsPixels(trace[m]) /\ trace[m].dc = HIGH
        /\ ShowAtEnd =>
             Concat(PixelWrites(trace)) = buffer["main"]

\* the last chunk written is shorter than the others
C3_Witness ==
    /\ ShowAtEnd
    /\ buffer["main"].len % 4096 # 0
    /\ Len(PixelWrites(trace)) > 2
    /\ PixelWrites(trace)[1].bytes.len = 4096

(* ------------------------------------------------------------------------ *)
(* C4: init_display() produces exactly: RESET high, 10 ms, RESET low,       *)
(* 10 ms, RESET high, 10 ms, sleep-out 0x11, 120 ms, 0x36 and one data      *)
(* byte, 0x3A and the data byte 0x05, display-on 0x29 - and no other bus    *)
(* write or reset transition.                                               *)
(* ------------------------------------------------------------------------ *)
\* what the panel sees of an event: DC writes are not seen on their own,
\* they decide how the next bytes are taken
Seen(e) ==
    IF e.ev = "sleep" THEN <<"delay", e.ms>>
    ELSE IF e.ev = "output" THEN <<"pin", e.pin, e.level>>
    ELSE IF IsCommandWrite(e) THEN <<"command", e.bytes>>
    ELSE IF IsDataWrite(e) THEN <<"data", e.bytes>>
    ELSE <<"other", e.ev>>

SeenOf(tr) ==
    LET kept == SelectSeq(tr, LAMBDA e : ~IsDcOutput(e))
    IN  [k \in 1 .. Len(kept) |-> Seen(kept[k])]

\* the events since init_display() was entered
InitDisplayTrace == SubSeq(trace, Top("main").base + 1, Len(trace))

InitDisplayExpected(orientation) ==
    <<<<"pin", 27, HIGH>>, <<"delay", 10>>,
      <<"pin", 27, LOW>>, <<"delay", 10>>,
      <<"pin", 27, HIGH>>, <<"delay", 10>>,
      <<"command", Bytes(<<17>>)>>, <<"delay", 120>>,
      <<"command", Bytes(<<54>>)>>, <<"data", Bytes(<<orientation>>)>>,
      <<"command", Bytes(<<58>>)>>, <<"data", Bytes(<<5>>)>>,
      <<"command", Bytes(<<41>>)>>>>

IsPrefix(a, b) == Len(a) <= Len(b) /\ a = SubSeq(b, 1, Len(a))

InInitDisplay == Running("main") /\ Top("main").fn = "init_display"
InitDisplayAtEnd == InInitDisplay /\ Top("main").i > Len(init_display)

\* C4: what init_display() does is the expected sequence, event for event
C4_InitDisplaySequence ==
    InInitDisplay =>
        \E orientation \in 0 .. 255 :
            LET seen == SeenOf(InitDisplayTrace)
            IN  /\ IsPrefix(seen, InitDisplayExpected(orientation))
                /\ InitDisplayAtEnd => seen = InitDisplayExpected(orientation)

\* init_display() has run to its end, called on a constructed object
C4_Witness == InitDisplayAtEnd /\ last = "init_display"

(* ------------------------------------------------------------------------ *)
(* C5: in the bus trace of constructing an LCDDisplay, after every          *)
(* sleep-out command 0x11 the driver sleeps at least 120 ms before it       *)
(* writes another command byte.                                             *)
(* ------------------------------------------------------------------------ *)
RECURSIVE SleptBetween(_, _)
SleptBetween(a, b) ==
    IF a >= b THEN 0
    ELSE (IF trace[a].ev = "sleep" THEN trace[a].ms ELSE 0) + SleptBetween(a + 1, b)

IsSleepOut(e) == IsCommandWrite(e) /\ e.bytes = Bytes(<<17>>)

\* C5: constructing the object, 120 ms of sleep separate every sleep-out
\* from the next command
C5_SleepOutSettles ==
    last = "__init__" =>
        \A k \in 1 .. Len(trace) : \A m \in (k + 1) .. Len(trace) :
            (IsSleepOut(trace[k]) /\ IsCommandWrite(trace[m]))
                => SleptBetween(k + 1, m) >= 120

(* ------------------------------------------------------------------------ *)
(* C6: show() sends 00 00 00 EF as the four data bytes after 0x2A and       *)
(* again after 0x2B: two big-endian 16-bit values, 0 and width-1 for the    *)
(* columns, 0 and height-1 for the rows.                                    *)
(* ------------------------------------------------------------------------ *)
BigEndian16(v) == <<v \div 256, v % 256>>

\* the bytes of the writes k+1 .. k+4 of w, as far as they are written
ParamsAfter(w, k) ==
    [j \in 1 .. (IF Len(w) - k > 4 THEN 4 ELSE Len(w) - k) |-> w[k + j]]

WindowOk(w, k, end) ==
    LET ps == ParamsAfter(w, k)
        want == BigEndian16(0) \o BigEndian16(end)
    IN  /\ want = <<0, 0, 0, 239>>
        /\ \A j \in 1 .. Len(ps) : IsDataWrite(ps[j]) /\ ps[j].bytes = Bytes(<<want[j]>>)
        /\ ShowDone => Len(ps) = 4

\* C6: the parameters of 0x2A and of 0x2B are 00 00 00 EF
C6_FullFrameWindow ==
    InShowCall =>
        LET w == Writes(trace)
        IN  \A k \in 1 .. Len(w) :
                /\ (IsCommandWrite(w[k]) /\ w[k].bytes = Bytes(<<42>>)) => WindowOk(w, k, width - 1)
                /\ (IsCommandWrite(w[k]) /\ w[k].bytes = Bytes(<<43>>)) => WindowOk(w, k, height - 1)

C6_Witness ==
    /\ ShowDone
    /\ LET w == Writes(trace)
       IN  /\ Len(w) > RamwrAt
           /\ w[1].bytes = Bytes(<<42>>) /\ w[5].bytes = Bytes(<<239>>)
           /\ w[6].bytes = Bytes(<<43>>) /\ w[10].bytes = Bytes(<<239>>)

(* ------------------------------------------------------------------------ *)
(* C7: the two bytes emitted for a pixel (r, g, b) are the high and the low *)
(* byte of the RGB565 value with r's top 5 bits in bits 15-11, g's top 6    *)
(* bits in bits 10-5 and b's top 5 bits in bits 4-0; the value fits 16      *)
(* bits, and unpacking it gives (r & 0xF8, g & 0xFC, b & 0xF8).             *)
(* ------------------------------------------------------------------------ *)
\* the packing, by place value
Rgb565(r, g, b) == (r \div 8) * 2048 + (g \div 4) * 32 + (b \div 8)

\* the inverse of the packing: the three fields, back at the top of a byte
Unpack565(v) == <<(v \div 2048) * 8, ((v \div 32) % 64) * 4, (v % 32) * 8>>

\* C7: the emitted bytes are the RGB565 value, which unpacks to the masked
\* channels
C7_PackRoundTrip ==
    res # <<>> =>
        LET v == res[1] * 256 + res[2]
        IN  /\ Len(res) = 2
            /\ res[1] \in 0 .. 255 /\ res[2] \in 0 .. 255
            /\ v = Rgb565(arg[1], arg[2], arg[3])
            /\ v < 65536
            /\ Unpack565(v) = <<arg[1] - (arg[1] % 8), arg[2] - (arg[2] % 4), arg[3] - (arg[3] % 8)>>

\* (255, 255, 255) -> 0xFFFF -> (248, 252, 248)
C7_Witness ==
    /\ arg = <<255, 255, 255>>
    /\ res = <<255, 255>>
    /\ Unpack565(65535) = <<248, 252, 248>>

(* ------------------------------------------------------------------------ *)
(* C8: the rotation of show() is the clockwise quarter turn: the pixel      *)
(* (x, y) of the rotated image is the pixel (y, height-1-x) of the canvas.  *)
(* It is a bijection of the coordinates onto themselves (it undoes, and is  *)
(* undone by, the map that sends a canvas pixel to where the turn puts it), *)
(* and the stream emits the rotated image row by row.                       *)
(* ------------------------------------------------------------------------ *)
\* where a clockwise quarter turn puts the canvas pixel (x, y): the top
\* left corner goes to the top right one
Clockwise(x, y) == <<height - 1 - y, x>>

InCanvas(c) == c[1] \in 0 .. width - 1 /\ c[2] \in 0 .. height - 1

\* C8: the rotation is the clockwise quarter turn, a bijection of the
\* canvas coordinates, read row by row
C8_RotationBijection ==
    res # <<>> =>
        /\ InCanvas(res.from)
        /\ Clockwise(res.from[1], res.from[2]) = arg
        /\ InCanvas(Clockwise(arg[1], arg[2]))
        /\ LET to == Clockwise(arg[1], arg[2]) IN ROTATE_270(to[1], to[2]) = arg
        /\ res.read = arg

\* the bottom right pixel of the rotated image is the top right pixel of
\* the canvas
C8_Witness ==
    /\ arg = <<width - 1, height - 1>>
    /\ res # <<>>
    /\ res.from = <<height - 1, 0>>

(* ------------------------------------------------------------------------ *)
(* C9: the pixel data written by show() is width*height*2 bytes for any     *)
(* canvas, and for a solid black canvas every one of them is 0x00.          *)
(* ------------------------------------------------------------------------ *)
IsSolidBlack(im) == \A x \in 0 .. width - 1 : \A y \in 0 .. height - 1 : GetPixel(im, x, y) = <<0, 0, 0>>

\* C9: a frame is width*height*2 pixel bytes, all zero for a black canvas
C9_FrameLength ==
    (ShowDone /\ ~Running("main")) =>
        LET chunks == PixelWrites(trace)
        IN  /\ TotalLen(chunks) = width * height * 2
            /\ TotalLen(chunks) = 115200
            /\ IsSolidBlack(image) =>
                 \A k \in 1 .. Len(chunks) :
                    \A j \in 1 .. chunks[k].bytes.len : ByteAt(chunks[k].bytes, j) = 0

C9_Witness ==
    /\ ShowDone /\ ~Running("main")
    /\ IsSolidBlack(image)
    /\ TotalLen(PixelWrites(trace)) > 0

(* ------------------------------------------------------------------------ *)
(* C10: each button pin has at most one edge-detection registration;       *)
(* binding a callback on a pin that has one never runs into the existing    *)
(* registration, which is cleared first; and a press runs no callback but   *)
(* the one last bound on its pin.                                           *)
(* ------------------------------------------------------------------------ *)
C10_OneRegistration ==
    /\ \A p \in InPins :
         /\ Len(callbacks[p]) <= 1
         /\ callbacks[p] # <<>> => p \in detect
         /\ \A k \in 1 .. Len(callbacks[p]) : callbacks[p][k] = newest[p]
    /\ \A k \in 1 .. Len(trace) :
         trace[k].ev = "print" => trace[k].why # "conflict"

C10_PressRunsNewest ==
    \A p \in InPins :
        (fired' # fired /\ fired' # <<>> /\ fired'.pin = p) =>
            \A k \in 1 .. Len(fired'.funcs) : fired'.funcs[k] = newest[p]

\* C10: at most one registration per pin, no conflict on re-binding, and a
\* press runs the newest callback only
C10_Rebind == []C10_OneRegistration /\ [][C10_PressRunsNewest]_vars

\* KEY1 was bound to one callback (a press ran it while set_callbacks was
\* about to clear it) and is now bound to another; a second pin is bound too
C10_Witness ==
    /\ fired # <<>>
    /\ fired.pin = 21
    /\ fired.funcs = <<"on_key_a">>
    /\ callbacks[21] = <<"on_key_b">>
    /\ callbacks[20] # <<>>

(* ------------------------------------------------------------------------ *)
(* C11: every command byte written to the bus is one of the seven opcodes   *)
(* 0x11, 0x29, 0x36, 0x3A, 0x2A, 0x2B, 0x2C.  The constructor also writes   *)
(* 0x21 (display inversion on), once, before it calls init_display();       *)
(* init_display() and show() write the seven only.                          *)
(* ------------------------------------------------------------------------ *)
FixedOpcodes == {17, 41, 54, 58, 42, 43, 44}

\* a write the driver sends as a command, or the panel takes as one
IsCommandByte(e) == IsWrite(e) /\ (e.class = "command" \/ e.dc = LOW)

OpcodeOf(e) == ByteAt(e.bytes, 1)

\* the positions of the trace where the opcode op is written
WrittenAt(op) ==
    {k \in 1 .. Len(trace) : IsCommandByte(trace[k]) /\ OpcodeOf(trace[k]) = op}

FailedAt == {k \in 1 .. Len(trace) : trace[k].ev = "write_failed"}

\* show() ran to its end without an exception
ShowSucceeded == ShowDone /\ exc["main"] = NoExc

FullFrameWritten ==
    LET w == Writes(trace)
    IN  /\ Len(w) > RamwrAt
        /\ \A k \in 1 .. Len(w) :
             IF k <= RamwrAt THEN ShowHeaderOk(w, k) ELSE IsPixels(w[k])
        /\ TotalLen(PixelWrites(trace)) = 2 * width * height

\* C12: a failed write is the last thing its call does on the bus, the
\* exception reaches the caller, the frame stays short, and the next
\* show() without failure writes window and frame in full
C12_FailurePropagates ==
    /\ \A k \in FailedAt :
         /\ k = Len(trace)
         /\ exc[trace[k].by] # NoExc
         /\ InShowCall => TotalLen(PixelWrites(trace)) < 2 * width * height
    /\ \A t \in Threads :
         exc[t] # NoExc =>
            /\ FailedAt # {}
            /\ Running(t) => Top(t).fn \in {"__init__", "init_display", "show", "update_status"}
    /\ (FailedAt = {} /\ ShowDone) => (ShowSucceeded /\ FullFrameWritten)

\* a show() has written its frame, called after an update_status() that a
\* failed write had ended
C12_Witness ==
    /\ failedBefore = "update_status"
    /\ last = "show"
    /\ ShowSucceeded
    /\ ~Running("main")
    /\ FullFrameWritten

(* ------------------------------------------------------------------------ *)
(* C14: when a button callback calls show() or update_status() while a      *)
(* show() of the main thread is in progress and no lock is held around the  *)
(* calls, the threads can interleave so that a byte goes out with the DC    *)
(* line at the level of the other kind, or a command byte goes out between  *)
(* two pixel chunks of the other thread's frame.  With every call under one *)
(* lock neither can happen.                                                 *)
(* ------------------------------------------------------------------------ *)
\* the k-th event is a bus write with DC at the wrong level for its bytes
DcMismatch(k) == IsWrite(trace[k]) /\ trace[k].dc # WantedDc(trace[k])

\* the positions of the pixel chunks written by the thread t
ChunksBy(t) == {k \in 1 .. Len(trace) : IsPixels(trace[k]) /\ trace[k].by = t}

\* the k-th event is a command written by one thread between two pixel
\* chunks of the other
CommandInFrame(k) ==
    /\ IsWrite(trace[k])
    /\ trace[k].class = "command"
    /\ \E t \in Threads \ {trace[k].by} :
         /\ \E j \in ChunksBy(t) : j < k
         /\ \E m \in ChunksBy(t) : m > k

Interference == \E k \in 1 .. Len(trace) : DcMismatch(k) \/ CommandInFrame(k)

\* C14: with all calls under one lock, every byte goes out at its DC level
\* and no command goes out inside a frame
C14_SerializedIsSafe == serialized => ~Interference

\* without the lock: the main thread drove DC low for a command, a
\* callback's show() ran and left DC high, and the command went out as data
C14_Witness ==
    /\ ~serialized
    /\ \E k \in 1 .. Len(trace) :
         /\ DcMismatch(k)
         /\ trace[k].by = "main"
         /\ trace[k].class = "command"
         /\ \E j \in 1 .. (k - 1) : IsPixels(trace[j]) /\ trace[j].by = "callback"

(* ------------------------------------------------------------------------ *)
(* C15: while an LCDDisplay is constructed, nothing is written to the bus   *)
(* before the reset pulse - RESET high, low, high - has been completed.     *)
(* ------------------------------------------------------------------------ *)
IsResetWrite(e, lv) == e.ev = "output" /\ e.pin = RST_PIN /\ e.level = lv

\* RESET was driven high, then low, then high before the k-th event
ResetPulseBefore(k) ==
    \E a \in 1 .. (k - 1) : \E b \in (a + 1) .. (k - 1) : \E c \in (b + 1) .. (k - 1) :
        /\ IsResetWrite(trace[a], HIGH)
        /\ IsResetWrite(trace[b], LOW)
        /\ IsResetWrite(trace[c], HIGH)

\* C15: every bus write of the constructor comes after the reset pulse
C15_NoWriteBeforeReset ==
    last = "__init__" =>
        \A k \in 1 .. Len(trace) : IsWrite(trace[k]) => ResetPulseBefore(k)

(* ------------------------------------------------------------------------ *)
(* C16: the constructor drives the backlight pin high as the next thing     *)
(* after it has set the pin up as an output, and the pin is high in every   *)
(* state from then on: the constructor writes it high once more, and        *)
(* init_display, show, update_status, clear and set_callbacks never write   *)
(* it.                                                                      *)
(* ------------------------------------------------------------------------ *)
IsBacklightWrite(e) == e.ev = "output" /\ e.pin = BL_PIN

\* the pin has been set up, and the write that follows is still to be done
BacklightWriteIsNext ==
    /\ Running("main")
    /\ Top("main").fn = "__init__"
    /\ Top("main").i <= Len(ctor)
    /\ Instr("main") = OutputI(BL_PIN, HIGH)

\* C16: once set up the backlight pin is high but for the moment before the
\* write that follows the setup, and only the constructor writes the pin
C16_BacklightStaysOn ==
    /\ dir[BL_PIN] = "OUT" => (level[BL_PIN] = HIGH \/ BacklightWriteIsNext)
    /\ (dir[BL_PIN] = "OUT" /\ level[BL_PIN] # HIGH) =>
         \A k \in 1 .. Len(trace) : ~IsBacklightWrite(trace[k])
    /\ \A k \in 1 .. Len(trace) :
         IsBacklightWrite(trace[k]) => (last = "__init__" /\ trace[k].level = HIGH)
    /\ Constructed => level[BL_PIN] = HIGH

\* set_callbacks has bound a button after the display was used: the
\* backlight is on and no write of the call went to its pin
C16_Witness ==
    /\ last = "set_callbacks"
    /\ ~Running("main")
    /\ detect # {}
    /\ image \in Rasters
    /\ level[BL_PIN] = HIGH

(* ------------------------------------------------------------------------ *)
(* C17: clear() leaves the canvas black all over and does nothing else: no  *)
(* bus write, no pin write, no change to the edge detection of any pin.     *)
(* What show() has put on the panel stays until the next show().            *)
(* ------------------------------------------------------------------------ *)
InClear == last = "clear"

\* clear() is done: nothing of it was seen on the pins or the bus, and the
\* canvas is black
C17_ClearState ==
    InClear =>
        /\ trace = <<>>
        /\ exc["main"] = NoExc
        /\ ~Running("main") => IsSolidBlack(image)

\* a step that begins clear() or is part of it changes no pin, no bus
\* state and no registration
C17_ClearStep ==
    InClear' =>
        /\ UNCHANGED <<mode, dir, level, spi>>
        /\ UNCHANGED <<detect, callbacks, newest>>
        /\ trace' = <<>>

\* C17: clear() blackens the canvas and touches neither bus, pins nor
\* button registrations
C17_ClearIsLocal == []C17_ClearState /\ [][C17_ClearStep]_vars

\* clear() has returned with a button bound
C17_Witness ==
    /\ InClear
    /\ ~Running("main")
    /\ IsSolidBlack(image)
    /\ detect # {}
    /\ failedBefore = NoExc

(* ------------------------------------------------------------------------ *)
(* C18: when add_event_detect fails for a pin in set_callbacks(), after     *)
(* the pin's registration was cleared, a warning is printed, no exception   *)
(* leaves set_callbacks(), and the pins that follow and were given a        *)
(* callback are cleared and registered all the same.                        *)
(* ------------------------------------------------------------------------ *)
InSetCallbacks == Running("main") /\ Top("main").fn = "set_callbacks"

SetCallbacksAtEnd ==
    InSetCallbacks /\ Top("main").i > Len(set_callbacks(Top("main").args))

\* a warning was printed for the pin
Reported(pin) == \E k \in 1 .. Len(trace) : trace[k].ev = "print" /\ trace[k].pin = pin

Registered(pin, func) == pin \in detect /\ callbacks[pin] = <<func>>

\* the buttons given a callback by the call that is running
Given == {n \in 1 .. Len(ButtonPins) : Top("main").args[n] # None}

\* C18: a failed registration is printed and not raised, and every button
\* given a callback is dealt with: registered, or reported and left cleared
C18_FailureIsNotFatal ==
    /\ \A t \in Threads : exc[t] = NoExc
    /\ last = "set_callbacks" =>
         \A k \in 1 .. Len(trace) :
            trace[k].ev = "print" /\ (\A j \in 1 .. (k - 1) : trace[j] # trace[k])
    /\ SetCallbacksAtEnd =>
         \A n \in Given :
            /\ newest[ButtonPins[n]] = Top("main").args[n]
            /\ Reported(ButtonPins[n]) = ~Registered(ButtonPins[n], Top("main").args[n])
            /\ Reported(ButtonPins[n]) =>
                 (ButtonPins[n] \notin detect /\ callbacks[ButtonPins[n]] = <<>>)

\* the registration failed for KEY1, the first pin, and KEY2 and KEY3 were
\* registered after it
C18_Witness ==
    /\ SetCallbacksAtEnd
    /\ Given = {1, 2, 3}
    /\ Reported(KEY1_PIN)
    /\ Registered(KEY2_PIN, Top("main").args[2])
    /\ Registered(KEY3_PIN, Top("main").args[3])

(* ------------------------------------------------------------------------ *)
(* C19: show() does not change the canvas, and nothing of one call is left  *)
(* for the next: a show() called again with the canvas untouched writes the *)
(* same bytes, at the same DC levels, as the show() before it.              *)
(* ------------------------------------------------------------------------ *)
\* what the bus carries in the events tr: the bytes of each write and the DC
\* level they go out at
BusOf(tr) ==
    LET w == Writes(tr)
    IN  [k \in 1 .. Len(w) |-> <<w[k].dc, w[k].bytes>>]

\* the second of two shows is running, or at its end
InSecondShow == last = "show, show" /\ Running("main") /\ Top("main").fn = "show"

FirstShow == BusOf(SubSeq(trace, 1, Top("main").base))
SecondShow == BusOf(SubSeq(trace, Top("main").base + 1, Len(trace)))

C19_SameBytes ==
    /\ InSecondShow =>
         /\ IsPrefix(SecondShow, FirstShow)
         /\ Top("main").i > Len(show) => SecondShow = FirstShow
    /\ ~Running("main") => (buffer["main"].len = 0 /\ i["main"] = 0)

\* no step of show() changes the canvas
C19_CanvasKept ==
    (\E t \in Threads : Running(t) /\ Top(t).fn = "show") => image' = image

\* C19: show() leaves the canvas as it is, and a second show() of the same
\* canvas repeats the bus traffic of the first
C19_ShowRepeats == []C19_SameBytes /\ [][C19_CanvasKept]_vars

\* the second show() of a drawn, not rotation-symmetric canvas is at its end
C19_Witness ==
    /\ InSecondShow
    /\ Top("main").i > Len(show)
    /\ image \in Rasters
    /\ Len(SecondShow) > RamwrAt + 1
    /\ Transposed[image] # image

(* ------------------------------------------------------------------------ *)
(* C20: set_callbacks() touches the edge detection of the buttons it is     *)
(* given a callback for and of no other pin: a button passed None keeps the *)
(* registration, and the callback, it had, and the joystick-centre pin is   *)
(* never registered.                                                        *)
(* ------------------------------------------------------------------------ *)
RegistrationOf(pin) == <<pin \in detect, callbacks[pin]>>

\* the running set_callbacks() was given a callback for the pin
GivenCallback(pin) ==
    /\ InSetCallbacks
    /\ \E n \in 1 .. Len(ButtonPins) : ButtonPins[n] = pin /\ Top("main").args[n] # None

\* a step changes the registration of a pin only inside a set_callbacks()
\* that was given a callback for that pin
C20_TouchesGivenOnly ==
    \A pin \in InPins :
        RegistrationOf(pin)' # RegistrationOf(pin) => GivenCallback(pin)

C20_JoystickUnregistered ==
    /\ JOY_CTR \notin detect
    /\ callbacks[JOY_CTR] = <<>>
    /\ newest[JOY_CTR] = None

\* C20: only the buttons given a callback are cleared and registered, the
\* joystick-centre pin never
C20_NoneLeavesBinding == []C20_JoystickUnregistered /\ [][C20_TouchesGivenOnly]_vars

\* set_callbacks(None, on_key_b, None) is at its end, and KEY1 has the
\* callback an earlier call bound
C20_Witness ==
    /\ SetCallbacksAtEnd
    /\ Top("main").args = <<None, "on_key_b", None>>
    /\ Registered(KEY1_PIN, "on_key_a")
    /\ Registered(KEY2_PIN, "on_key_b")
    /\ KEY3_PIN \notin detect

====
